---- MODULE Spec2Model ----
(***************************************************************************)
(* Model of sailfish/src/runtime/render.rs: the Render trait, its default  *)
(* render_escaped, and the implementations for str, char, Path, bool, the  *)
(* integer types and the float types, all appending to one Buffer.         *)
(*                                                                         *)
(* Text is a sequence of bytes (0..255).  A Buffer is a record             *)
(* [mem, len]: mem is the allocation (its length is the capacity) and the  *)
(* first len cells are the content.  Cells past len hold whatever was      *)
(* left there (UNINIT for memory that was never written).                  *)
(***************************************************************************)
EXTENDS Integers, Sequences, FiniteSets, TLC

VARIABLES b, growth, ncalls, last, expected

vars == <<b, growth, ncalls, last, expected>>

----------------------------------------------------------------------------
(* Bounds *)

MaxCalls == 2
MaxStrLen == 2
MaxPathLen == 2
MaxTextLen == 2

----------------------------------------------------------------------------
(* Bytes and small helpers *)

QUOT == 34
AMP == 38
LT == 60
GT == 62
MINUS == 45
ZERO == 48
UNINIT == 0 - 1

ENT_QUOT == <<38, 113, 117, 111, 116, 59>>
ENT_AMP == <<38, 97, 109, 112, 59>>
ENT_LT == <<38, 108, 116, 59>>
ENT_GT == <<38, 103, 116, 59>>

Max(x, y) == IF x >= y THEN x ELSE y

RECURSIVE Flatten(_)
Flatten(ss) == IF ss = <<>> THEN <<>> ELSE Head(ss) \o Flatten(Tail(ss))

SeqsUpTo(S, n) == UNION {[1..k -> S] : k \in 0..n}

Ok == "Ok"
NoTrace == [reserved |-> FALSE, free |-> 0, l |-> 0, max_len |-> 0, oob |-> FALSE]

----------------------------------------------------------------------------
(* super::buffer::Buffer *)

BufferNew == [mem |-> <<>>, len |-> 0]

Capacity(buf) == Len(buf.mem)

AsStr(buf) ==
    [i \in 1..buf.len |-> IF i <= Len(buf.mem) THEN buf.mem[i] ELSE UNINIT]

\* reserve(size): afterwards at least size bytes are free; the content and
\* the length are kept.  The allocator either fits exactly or doubles.
Reserve(buf, size) ==
    IF size <= Capacity(buf) - buf.len
    THEN buf
    ELSE LET fit == buf.len + size
             newcap == IF growth = "double"
                       THEN Max(2 * Capacity(buf), fit) ELSE fit
         IN [buf EXCEPT !.mem =
                [i \in 1..newcap |->
                    IF i <= Capacity(buf) THEN buf.mem[i] ELSE UNINIT]]

\* raw write of bytes at offset off; cells outside the allocation are lost
WriteAt(buf, off, bytes) ==
    [buf EXCEPT !.mem =
        [i \in 1..Len(buf.mem) |->
            IF i > off /\ i <= off + Len(bytes)
            THEN bytes[i - off] ELSE buf.mem[i]]]

SetLen(buf, n) == [buf EXCEPT !.len = n]

PushStr(buf, s) ==
    LET r == Reserve(buf, Len(s))
    IN SetLen(WriteAt(r, r.len, s), r.len + Len(s))

\* UTF-8 encoding of a code point
Utf8(c) ==
    IF c < 128 THEN <<c>>
    ELSE IF c < 2048 THEN <<192 + (c \div 64), 128 + (c % 64)>>
    ELSE IF c < 65536
         THEN <<224 + (c \div 4096), 128 + ((c \div 64) % 64), 128 + (c % 64)>>
    ELSE <<240 + (c \div 262144), 128 + ((c \div 4096) % 64),
           128 + ((c \div 64) % 64), 128 + (c % 64)>>

Push(buf, c) == PushStr(buf, Utf8(c))

BufClear(buf) == SetLen(buf, 0)

----------------------------------------------------------------------------
(* super::escape::escape_to_buf *)

EscapeByte(x) ==
    IF x = QUOT THEN ENT_QUOT
    ELSE IF x = AMP THEN ENT_AMP
    ELSE IF x = LT THEN ENT_LT
    ELSE IF x = GT THEN ENT_GT
    ELSE <<x>>

RECURSIVE EscapeFrom(_, _, _)
EscapeFrom(s, i, buf) ==
    IF i > Len(s) THEN buf
    ELSE EscapeFrom(s, i + 1, PushStr(buf, EscapeByte(s[i])))

escape_to_buf(s, buf) == EscapeFrom(s, 1, buf)

----------------------------------------------------------------------------
(* super::integer::Integer *)

IntTypes == {"u8", "u16", "u32", "u64", "i8", "i16", "i32", "i64",
             "usize", "isize"}

MAX_LEN(ty) ==
    CASE ty = "u8" -> 3
      [] ty = "i8" -> 4
      [] ty = "u16" -> 5
      [] ty = "i16" -> 6
      [] ty = "u32" -> 10
      [] ty = "i32" -> 11
      [] OTHER -> 20

\* two decimal digits of d < 100, as the lookup table holds them
DigitPair(d) == <<ZERO + (d \div 10), ZERO + (d % 10)>>

RECURSIVE Digits(_)
Digits(m) ==
    IF m < 10 THEN <<ZERO + m>>
    ELSE IF m < 100 THEN DigitPair(m)
    ELSE Digits(m \div 100) \o DigitPair(m % 100)

\* the bytes write_to stores at the pointer; it returns their number
write_to(v) ==
    IF v.n < 0
    THEN <<MINUS>> \o Digits(0 - v.n)
    ELSE Digits(v.n)

----------------------------------------------------------------------------
(* Path::to_string_lossy and ryu::Buffer::format *)

REPLACEMENT == <<239, 191, 189>>

IsCont(x) == x >= 128 /\ x <= 191

RECURSIVE LossyFrom(_, _)
LossyFrom(p, i) ==
    IF i > Len(p) THEN <<>>
    ELSE IF p[i] < 128 THEN <<p[i]>> \o LossyFrom(p, i + 1)
    ELSE IF p[i] >= 194 /\ p[i] <= 223 /\ i < Len(p) /\ IsCont(p[i + 1])
         THEN <<p[i], p[i + 1]>> \o LossyFrom(p, i + 2)
    ELSE REPLACEMENT \o LossyFrom(p, i + 1)

to_string_lossy(p) == LossyFrom(p, 1)

Zeros(n) == [i \in 1..n |-> ZERO]

\* a float is given by its shortest decimal form: digits * 10^k, a sign,
\* or one of the non-finite classes
ryu_format(f) ==
    IF f.class = "nan" THEN <<78, 97, 78>>
    ELSE IF f.class = "inf"
         THEN (IF f.neg THEN <<MINUS>> ELSE <<>>) \o <<105, 110, 102>>
    ELSE LET sign == IF f.neg THEN <<MINUS>> ELSE <<>>
             ds == Digits(f.digits)
             length == Len(ds)
             k == f.k
             kk == length + k
             exp == IF kk - 1 < 0 THEN <<MINUS>> \o Digits(1 - kk)
                    ELSE Digits(kk - 1)
         IN sign \o
            (IF f.digits = 0 THEN <<ZERO, 46, ZERO>>
             ELSE IF 0 <= k /\ kk <= 16 THEN ds \o Zeros(k) \o <<46, ZERO>>
             ELSE IF 0 < kk /\ kk <= 16
                  THEN SubSeq(ds, 1, kk) \o <<46>> \o SubSeq(ds, kk + 1, length)
             ELSE IF 0 - 5 < kk /\ kk <= 0
                  THEN <<ZERO, 46>> \o Zeros(0 - kk) \o ds
             ELSE IF length = 1 THEN ds \o <<101>> \o exp
             ELSE <<ds[1], 46>> \o SubSeq(ds, 2, length) \o <<101>> \o exp)

----------------------------------------------------------------------------
(* impl Render for the built-in types *)

Done(buf) == [buf |-> buf, res |-> Ok, trace |-> NoTrace]

StrRender(s, buf) == Done(PushStr(buf, s))

\* variant: the span is copied without escaping
StrRenderEscaped_Raw(s, buf) == Done(PushStr(buf, s))

StrRenderEscaped(s, buf) == Done(escape_to_buf(s, buf))

CharRender(c, buf) == Done(Push(buf, c))

\* variant: the entities of < and > are exchanged
CharRenderEscaped_Swapped(c, buf) ==
    IF c = QUOT THEN Done(PushStr(buf, ENT_QUOT))
    ELSE IF c = AMP THEN Done(PushStr(buf, ENT_AMP))
    ELSE IF c = LT THEN Done(PushStr(buf, ENT_GT))
    ELSE IF c = GT THEN Done(PushStr(buf, ENT_LT))
    ELSE Done(Push(buf, c))

CharRenderEscaped(c, buf) ==
    IF c = QUOT THEN Done(PushStr(buf, ENT_QUOT))
    ELSE IF c = AMP THEN Done(PushStr(buf, ENT_AMP))
    ELSE IF c = LT THEN Done(PushStr(buf, ENT_LT))
    ELSE IF c = GT THEN Done(PushStr(buf, ENT_GT))
    ELSE Done(Push(buf, c))

\* variant: a path that is not valid UTF-8 is refused instead of converted
PathRender_Strict(p, buf) ==
    IF to_string_lossy(p) = p
    THEN Done(PushStr(buf, p))
    ELSE [buf |-> buf, res |-> "Msg", trace |-> NoTrace]

PathRender(p, buf) == Done(PushStr(buf, to_string_lossy(p)))

\* variant: the converted path is copied without escaping
PathRenderEscaped_Raw(p, buf) == Done(PushStr(buf, to_string_lossy(p)))

PathRenderEscaped(p, buf) == Done(escape_to_buf(to_string_lossy(p), buf))

BoolRender(x, buf) ==
    LET s == IF x THEN <<116, 114, 117, 101>> ELSE <<102, 97, 108, 115, 101>>
    IN Done(PushStr(buf, s))

BoolRenderEscaped(x, buf) == BoolRender(x, buf)

\* the trace of an integer render, shared by the variants below
IntResult(v, buf, need, b1, l, b3) ==
    [buf |-> b3, res |-> Ok,
     trace |-> [reserved |-> need, free |-> Capacity(b1) - b1.len,
                l |-> l, max_len |-> MAX_LEN(v.ty),
                oob |-> b1.len + l > Capacity(b1)]]

\* variant: the committed length is the number of bytes written
IntRender_LenIsWritten(v, buf) ==
    LET need == MAX_LEN(v.ty) > Capacity(buf) - buf.len
        b1 == IF need THEN Reserve(buf, MAX_LEN(v.ty)) ELSE buf
        bytes == write_to(v)
        b2 == WriteAt(b1, b1.len, bytes)
    IN IntResult(v, buf, need, b1, Len(bytes), SetLen(b2, Len(bytes)))

\* variant: the whole reserved region is committed
IntRender_CommitMaxLen(v, buf) ==
    LET need == MAX_LEN(v.ty) > Capacity(buf) - buf.len
        b1 == IF need THEN Reserve(buf, MAX_LEN(v.ty)) ELSE buf
        bytes == write_to(v)
        b2 == WriteAt(b1, b1.len, bytes)
    IN IntResult(v, buf, need, b1, Len(bytes),
                 SetLen(b2, b2.len + MAX_LEN(v.ty)))

\* variant: the length is left out of the free-capacity test
IntRender_CapacityOnly(v, buf) ==
    LET need == MAX_LEN(v.ty) > Capacity(buf)
        b1 == IF need THEN Reserve(buf, MAX_LEN(v.ty)) ELSE buf
        bytes == write_to(v)
        b2 == WriteAt(b1, b1.len, bytes)
    IN IntResult(v, buf, need, b1, Len(bytes),
                 SetLen(b2, b2.len + Len(bytes)))

\* variant: the digits are written at the start of the allocation
IntRender_WriteAtBase(v, buf) ==
    LET need == MAX_LEN(v.ty) > Capacity(buf) - buf.len
        b1 == IF need THEN Reserve(buf, MAX_LEN(v.ty)) ELSE buf
        bytes == write_to(v)
        b2 == WriteAt(b1, 0, bytes)
    IN IntResult(v, buf, need, b1, Len(bytes),
                 SetLen(b2, b2.len + Len(bytes)))

IntRender(v, buf) ==
    LET need == MAX_LEN(v.ty) > Capacity(buf) - buf.len
        b1 == IF need THEN Reserve(buf, MAX_LEN(v.ty)) ELSE buf
        bytes == write_to(v)
        l == Len(bytes)
        b2 == WriteAt(b1, b1.len, bytes)
        b3 == SetLen(b2, b2.len + l)
    IN IntResult(v, buf, need, b1, l, b3)

IntRenderEscaped(v, buf) == IntRender(v, buf)

FloatRender(f, buf) == Done(PushStr(buf, ryu_format(f)))

FloatRenderEscaped(f, buf) == FloatRender(f, buf)

----------------------------------------------------------------------------
(* A type that implements only render and inherits render_escaped *)

\* render of such a type: writes v.text, then fails when v.err names an error
CustomRender(v, buf) ==
    [buf |-> PushStr(buf, v.text), res |-> v.err, trace |-> NoTrace]

\* variant: the result of render is dropped and the copy always happens
DefaultRenderEscaped_IgnoreError(v, buf) ==
    LET r == CustomRender(v, BufferNew)
    IN Done(PushStr(buf, AsStr(r.buf)))

\* Render::render_escaped, the provided method
DefaultRenderEscaped(v, buf) ==
    LET r == CustomRender(v, BufferNew)
    IN IF r.res # Ok
       THEN [buf |-> buf, res |-> r.res, trace |-> NoTrace]
       ELSE Done(PushStr(buf, AsStr(r.buf)))

----------------------------------------------------------------------------
(* Values the calls are made with *)

StrUnits == {<<97>>, <<QUOT>>, <<AMP>>, <<LT>>, <<GT>>, <<195, 169>>,
             <<108, 116, 59>>}

PathUnits == {<<98>>, <<LT>>, <<AMP>>, <<195, 169>>, <<195>>, <<255>>}

TextUnits == {<<120>>, <<LT>>, <<AMP>>, <<QUOT>>}

AllStrs == {Flatten(u) : u \in SeqsUpTo(StrUnits, MaxStrLen)}

AllPaths == {Flatten(u) : u \in SeqsUpTo(PathUnits, MaxPathLen)}

AllChars == {32, QUOT, AMP, 39, 59, LT, GT, 99, 233, 8364, 128512}

AllBools == BOOLEAN

AllInts ==
    {[ty |-> "u8", n |-> n] : n \in 0..255}
    \cup {[ty |-> "i8", n |-> n] : n \in (0 - 128)..127}
    \cup {[ty |-> "u16", n |-> n] : n \in {0, 99, 100, 999, 1000, 9999, 10000, 65535}}
    \cup {[ty |-> "i16", n |-> n] : n \in {0 - 32768, 0 - 10000, 0 - 1, 0, 1000, 32767}}
    \cup {[ty |-> "u32", n |-> n] : n \in {0, 4, 1000000, 999999999}}
    \cup {[ty |-> "i32", n |-> n] : n \in {0 - 999999999, 0 - 1, 1, 100000}}
    \cup {[ty |-> "u64", n |-> n] : n \in {0, 10, 123456789}}
    \cup {[ty |-> "i64", n |-> n] : n \in {0 - 123456789, 0, 101}}
    \cup {[ty |-> "usize", n |-> n] : n \in {0, 42}}
    \cup {[ty |-> "isize", n |-> n] : n \in {0 - 7, 7}}

Finite(neg, digits, k) ==
    [class |-> "finite", neg |-> neg, digits |-> digits, k |-> k]

AllFloats ==
    {Finite(FALSE, 2, 0), Finite(FALSE, 23, 0 - 1), Finite(TRUE, 5, 0 - 1),
     Finite(FALSE, 0, 0), Finite(TRUE, 0, 0), Finite(FALSE, 1, 16),
     Finite(FALSE, 15, 0 - 8), Finite(FALSE, 1234, 0 - 6),
     Finite(TRUE, 1234, 30), Finite(FALSE, 1234, 7),
     [class |-> "nan", neg |-> FALSE, digits |-> 0, k |-> 0],
     [class |-> "inf", neg |-> FALSE, digits |-> 0, k |-> 0],
     [class |-> "inf", neg |-> TRUE, digits |-> 0, k |-> 0]}

Errors == {"Msg", "Fmt"}

AllCustoms ==
    {[text |-> Flatten(u), err |-> e] :
        u \in SeqsUpTo(TextUnits, MaxTextLen), e \in {Ok} \cup Errors}

\* the values of the crate's tests and of the documented scenarios
PassStrs == {<<97, 112, 112, 108, 101>>, <<97, AMP, 98>>}
PassChars == {99, LT}
PassPaths == {<<98>>}
PassBools == {TRUE}
PassInts == {[ty |-> "i32", n |-> 1], [ty |-> "u32", n |-> 4],
             [ty |-> "i8", n |-> 0 - 128]}
PassFloats == {Finite(FALSE, 2, 0)}
PassCustoms == {[text |-> <<LT, 120>>, err |-> Ok],
                [text |-> <<120>>, err |-> "Fmt"]}

BuiltIn == {"str", "char", "path", "bool", "int", "float"}

----------------------------------------------------------------------------
(* Dispatch of a call on the value's type *)

Apply(op, kind, v, buf) ==
    IF op = "render"
    THEN CASE kind = "str" -> StrRender(v, buf)
           [] kind = "char" -> CharRender(v, buf)
           [] kind = "path" -> PathRender(v, buf)
           [] kind = "bool" -> BoolRender(v, buf)
           [] kind = "int" -> IntRender(v, buf)
           [] kind = "float" -> FloatRender(v, buf)
           [] kind = "custom" -> CustomRender(v, buf)
    ELSE CASE kind = "str" -> StrRenderEscaped(v, buf)
           [] kind = "char" -> CharRenderEscaped(v, buf)
           [] kind = "path" -> PathRenderEscaped(v, buf)
           [] kind = "bool" -> BoolRenderEscaped(v, buf)
           [] kind = "int" -> IntRenderEscaped(v, buf)
           [] kind = "float" -> FloatRenderEscaped(v, buf)
           [] kind = "custom" -> DefaultRenderEscaped(v, buf)

\* the text a call produces on its own, that is on a new buffer
OwnOutput(op, kind, v) == AsStr(Apply(op, kind, v, BufferNew).buf)

NoCall == [op |-> "none", kind |-> "none", val |-> 0, pre |-> BufferNew,
           res |-> Ok, trace |-> NoTrace]

\* the effect of a call that returned r: the buffer it left, the record of
\* the call, and the text the call produces on its own
Commit(op, kind, v, r) ==
    /\ b' = r.buf
    /\ last' = [op |-> op, kind |-> kind, val |-> v, pre |-> b,
                res |-> r.res, trace |-> r.trace]
    /\ expected' = expected \o OwnOutput(op, kind, v)
    /\ ncalls' = ncalls + 1
    /\ UNCHANGED growth

----------------------------------------------------------------------------
(* Actions: one per implementation and method, and Buffer::clear *)

RenderStr(S, limit) ==
    \E s \in S :
        /\ ncalls < limit
        /\ Commit("render", "str", s, StrRender(s, b))

RenderEscapedStr(S, limit) ==
    \E s \in S :
        /\ ncalls < limit
        /\ Commit("render_escaped", "str", s, StrRenderEscaped(s, b))

RenderChar(S, limit) ==
    \E c \in S :
        /\ ncalls < limit
        /\ Commit("render", "char", c, CharRender(c, b))

RenderEscapedChar(S, limit) ==
    \E c \in S :
        /\ ncalls < limit
        /\ Commit("render_escaped", "char", c, CharRenderEscaped(c, b))

RenderPath(S, limit) ==
    \E p \in S :
        /\ ncalls < limit
        /\ Commit("render", "path", p, PathRender(p, b))

RenderEscapedPath(S, limit) ==
    \E p \in S :
        /\ ncalls < limit
        /\ Commit("render_escaped", "path", p, PathRenderEscaped(p, b))

RenderBool(S, limit) ==
    \E x \in S :
        /\ ncalls < limit
        /\ Commit("render", "bool", x, BoolRender(x, b))

RenderEscapedBool(S, limit) ==
    \E x \in S :
        /\ ncalls < limit
        /\ Commit("render_escaped", "bool", x, BoolRenderEscaped(x, b))

RenderInt(S, limit) ==
    \E v \in S :
        /\ ncalls < limit
        /\ Commit("render", "int", v, IntRender(v, b))

RenderEscapedInt(S, limit) ==
    \E v \in S :
        /\ ncalls < limit
        /\ Commit("render_escaped", "int", v, IntRenderEscaped(v, b))

RenderFloat(S, limit) ==
    \E f \in S :
        /\ ncalls < limit
        /\ Commit("render", "float", f, FloatRender(f, b))

RenderEscapedFloat(S, limit) ==
    \E f \in S :
        /\ ncalls < limit
        /\ Commit("render_escaped", "float", f, FloatRenderEscaped(f, b))

RenderCustom(S, limit) ==
    \E v \in S :
        /\ ncalls < limit
        /\ Commit("render", "custom", v, CustomRender(v, b))

RenderEscapedCustom(S, limit) ==
    \E v \in S :
        /\ ncalls < limit
        /\ Commit("render_escaped", "custom", v, DefaultRenderEscaped(v, b))

Clear ==
    /\ b' = BufClear(b)
    /\ last' = [NoCall EXCEPT !.op = "clear", !.pre = b]
    /\ expected' = <<>>
    /\ UNCHANGED <<growth, ncalls>>

----------------------------------------------------------------------------
(* A render pass: calls in sequence on one buffer, starting from new *)

Init ==
    /\ growth \in {"exact", "double"}
    /\ b = BufferNew
    /\ ncalls = 0
    /\ last = NoCall
    /\ expected = <<>>

Next ==
    \/ RenderStr(PassStrs, MaxCalls)
    \/ RenderEscapedStr(PassStrs, MaxCalls)
    \/ RenderChar(PassChars, MaxCalls)
    \/ RenderEscapedChar(PassChars, MaxCalls)
    \/ RenderPath(PassPaths, MaxCalls)
    \/ RenderEscapedPath(PassPaths, MaxCalls)
    \/ RenderBool(PassBools, MaxCalls)
    \/ RenderEscapedBool(PassBools, MaxCalls)
    \/ RenderInt(PassInts, MaxCalls)
    \/ RenderEscapedInt(PassInts, MaxCalls)
    \/ RenderFloat(PassFloats, MaxCalls)
    \/ RenderEscapedFloat(PassFloats, MaxCalls)
    \/ RenderCustom(PassCustoms, MaxCalls)
    \/ RenderEscapedCustom(PassCustoms, MaxCalls)
    \/ Clear

Spec == Init /\ [][Next]_vars

----------------------------------------------------------------------------
(* One call with any value, on a buffer some earlier calls left behind *)

PreBuffers ==
    LET full == StrRender(<<97, AMP>>, BufferNew).buf
        wide == IntRender([ty |-> "u64", n |-> 0], BufferNew).buf
    IN {BufferNew, full, wide, BufClear(full), BufClear(wide)}

InitValue ==
    /\ growth \in {"exact", "double"}
    /\ b \in PreBuffers
    /\ ncalls = 0
    /\ last = NoCall
    /\ expected = AsStr(b)

NextValue ==
    \/ RenderStr(AllStrs, 1)
    \/ RenderEscapedStr(AllStrs, 1)
    \/ RenderChar(AllChars, 1)
    \/ RenderEscapedChar(AllChars, 1)
    \/ RenderPath(AllPaths, 1)
    \/ RenderEscapedPath(AllPaths, 1)
    \/ RenderBool(AllBools, 1)
    \/ RenderEscapedBool(AllBools, 1)
    \/ RenderInt(AllInts, 1)
    \/ RenderEscapedInt(AllInts, 1)
    \/ RenderFloat(AllFloats, 1)
    \/ RenderEscapedFloat(AllFloats, 1)
    \/ RenderCustom(AllCustoms, 1)
    \/ RenderEscapedCustom(AllCustoms, 1)

SpecValue == InitValue /\ [][NextValue]_vars

----------------------------------------------------------------------------
(* Vocabulary of the properties *)

IsCall == last.op \in {"render", "render_escaped"}

\* the bytes of suffix beyond the first n bytes of text
Beyond(text, n) == [i \in 1..(Len(text) - n) |-> text[n + i]]

\* what the last call appended to the buffer
Appended == Beyond(AsStr(b), last.pre.len)

IsPrefix(s, t) == Len(s) <= Len(t) /\ \A i \in 1..Len(s) : s[i] = t[i]

Reserved == {QUOT, AMP, LT, GT}

HasReserved(s) == \E i \in 1..Len(s) : s[i] \in Reserved

Count(s, x) == Cardinality({i \in 1..Len(s) : s[i] = x})

\* the escaping policy as a function from text to text
Entity(x) ==
    CASE x = 34 -> <<38, 113, 117, 111, 116, 59>>
      [] x = 38 -> <<38, 97, 109, 112, 59>>
      [] x = 60 -> <<38, 108, 116, 59>>
      [] x = 62 -> <<38, 103, 116, 59>>
      [] OTHER -> <<x>>

RECURSIVE EscapePolicy(_)
EscapePolicy(s) ==
    IF s = <<>> THEN <<>> ELSE Entity(Head(s)) \o EscapePolicy(Tail(s))

\* reading escaped text back: every & must open one of the four entities
BAD == 0 - 2

HasAt(t, i, e) == i + Len(e) - 1 <= Len(t) /\ SubSeq(t, i, i + Len(e) - 1) = e

RECURSIVE Unescape(_, _)
Unescape(t, i) ==
    IF i > Len(t) THEN <<>>
    ELSE IF t[i] # AMP THEN <<t[i]>> \o Unescape(t, i + 1)
    ELSE IF HasAt(t, i, ENT_QUOT) THEN <<QUOT>> \o Unescape(t, i + 6)
    ELSE IF HasAt(t, i, ENT_AMP) THEN <<AMP>> \o Unescape(t, i + 5)
    ELSE IF HasAt(t, i, ENT_LT) THEN <<LT>> \o Unescape(t, i + 4)
    ELSE IF HasAt(t, i, ENT_GT) THEN <<GT>> \o Unescape(t, i + 4)
    ELSE <<BAD>> \o Unescape(t, i + 1)

\* reading decimal text back
IsDigit(x) == x >= 48 /\ x <= 57

RECURSIVE DecVal(_)
DecVal(ds) ==
    IF ds = <<>> THEN 0
    ELSE 10 * DecVal(SubSeq(ds, 1, Len(ds) - 1)) + (ds[Len(ds)] - 48)

MinimalDecimal(t, n) ==
    LET neg == Len(t) > 0 /\ t[1] = MINUS
        ds == IF neg THEN Tail(t) ELSE t
    IN /\ Len(ds) >= 1
       /\ Len(ds) <= 9
       /\ \A i \in 1..Len(ds) : IsDigit(ds[i])
       /\ (ds[1] = 48 => Len(ds) = 1)
       /\ (neg <=> n < 0)
       /\ (IF neg THEN 0 - DecVal(ds) ELSE DecVal(ds)) = n

\* the UTF-8 bytes of the characters the calls are made with
CharBytes(c) ==
    CASE c = 233 -> <<195, 169>>
      [] c = 8364 -> <<226, 130, 172>>
      [] c = 128512 -> <<240, 159, 152, 128>>
      [] OTHER -> <<c>>

----------------------------------------------------------------------------
(* Properties *)

\* C1: for every built-in type and value, the bytes render_escaped appends
\* are the escaping policy applied to the bytes render appends for the same
\* value on the same buffer, also where render_escaped is overridden.
C1_EscapedIsPolicyOfRender ==
    (last.op = "render_escaped" /\ last.kind \in BuiltIn) =>
        Appended = EscapePolicy(
            Beyond(AsStr(Apply("render", last.kind, last.val, last.pre).buf),
                   last.pre.len))

C1_Witness ==
    /\ last.op = "render_escaped"
    /\ last.kind = "path"
    /\ last.val = <<255, LT>>
    /\ last.pre.len > 0
    /\ Appended = <<239, 191, 189, 38, 108, 116, 59>>

\* C2: the provided render_escaped of a type that does not override it
\* appends the rendered text with the escaping policy applied, so reserved
\* characters arrive as entities and never raw.
C2_DefaultEscapes ==
    (last.op = "render_escaped" /\ last.kind = "custom" /\ last.res = Ok) =>
        /\ Appended = EscapePolicy(last.val.text)
        /\ \A i \in 1..Len(Appended) : Appended[i] \notin {QUOT, LT, GT}

\* C3: from an empty buffer, after any sequence of calls the length is at
\* most the capacity and the content is the concatenation, in call order,
\* of the text each call produces on its own.
C3_ContentIsConcatenation ==
    /\ b.len <= Capacity(b)
    /\ AsStr(b) = expected

C3_Witness ==
    /\ ncalls >= 2
    /\ last.kind = "int"
    /\ last.pre.len > 0
    /\ last.pre.len < Capacity(last.pre)
    /\ b.len > last.pre.len
    /\ AsStr(b) = expected

\* C4: when render fails inside the provided render_escaped, nothing is
\* copied: the target buffer is as before the call and the same error is
\* returned.
C4_ErrorShortCircuits ==
    (last.op = "render_escaped" /\ last.kind = "custom" /\ last.val.err # Ok) =>
        /\ b = last.pre
        /\ last.res = last.val.err

C4_Witness ==
    /\ last.op = "render_escaped"
    /\ last.kind = "custom"
    /\ last.val.err = "Fmt"
    /\ last.val.text # <<>>
    /\ last.pre.len > 0
    /\ b = last.pre
    /\ last.res = "Fmt"

\* C5: the text render appends for an integer n is the minimal decimal form
\* of n: it reads back as n, has no leading zeros (zero is "0"), and starts
\* with '-' exactly when n is negative.
C5_MinimalDecimal ==
    (last.op = "render" /\ last.kind = "int") =>
        MinimalDecimal(Appended, last.val.n)

C5_Witness ==
    /\ last.op = "render"
    /\ last.kind = "int"
    /\ last.val = [ty |-> "i8", n |-> 0 - 128]
    /\ last.pre.len > 0
    /\ Appended = <<45, 49, 50, 56>>

\* C6: render_escaped of a text span s appends s with each of the four
\* reserved characters replaced by its entity and every other byte kept, in
\* order; a span without reserved characters is appended verbatim.
C6_StrEscaped ==
    (last.op = "render_escaped" /\ last.kind = "str") =>
        LET s == last.val
            out == Appended
        IN /\ Unescape(out, 1) = s
           /\ \A i \in 1..Len(out) : out[i] \notin {QUOT, LT, GT}
           /\ Len(out) = Len(s) + 5 * Count(s, QUOT) + 4 * Count(s, AMP)
                                + 3 * Count(s, LT) + 3 * Count(s, GT)
           /\ (~HasReserved(s) => out = s)

C6_Witness ==
    /\ last.op = "render_escaped"
    /\ last.kind = "str"
    /\ last.val = <<195, 169, LT>>
    /\ last.pre.len > 0
    /\ Appended = <<195, 169, 38, 108, 116, 59>>

\* C7: for a character c, render appends exactly c; render_escaped appends
\* &quot; for ", &amp; for &, &lt; for <, &gt; for >, and exactly c otherwise.
C7_CharTable ==
    (IsCall /\ last.kind = "char") =>
        LET c == last.val
        IN IF last.op = "render" THEN Appended = CharBytes(c)
           ELSE Appended =
                CASE c = 34 -> <<38, 113, 117, 111, 116, 59>>
                  [] c = 38 -> <<38, 97, 109, 112, 59>>
                  [] c = 60 -> <<38, 108, 116, 59>>
                  [] c = 62 -> <<38, 103, 116, 59>>
                  [] OTHER -> CharBytes(c)

C7_Witness ==
    /\ last.op = "render_escaped"
    /\ last.kind = "char"
    /\ last.val = LT
    /\ last.pre.len > 0
    /\ Appended = <<38, 108, 116, 59>>

\* C8: render and render_escaped of every built-in type return success for
\* every value and buffer state.
C8_BuiltInNeverFails ==
    (IsCall /\ last.kind \in BuiltIn) => last.res = Ok

C8_Witness ==
    /\ last.op = "render"
    /\ last.kind = "path"
    /\ last.val = <<195, 255>>
    /\ last.res = Ok
    /\ Appended = <<239, 191, 189, 239, 191, 189>>

\* C9: integer render calls reserve(MAX_LEN) exactly when the free capacity
\* is below MAX_LEN, so at the write at least MAX_LEN bytes are free; the
\* formatter writes l <= MAX_LEN bytes at offset length, and the committed
\* length is the old length plus l, at most the capacity.
C9_ReserveThenWrite ==
    (IsCall /\ last.kind = "int") =>
        LET t == last.trace
            pre == last.pre
        IN /\ last.val.ty \in IntTypes
           /\ pre.len <= Capacity(pre)
           /\ t.max_len = MAX_LEN(last.val.ty)
           /\ (t.reserved <=> Capacity(pre) - pre.len < t.max_len)
           /\ t.free >= t.max_len
           /\ t.l <= t.max_len
           /\ ~t.oob
           /\ b.len = pre.len + t.l
           /\ b.len <= Capacity(b)

C9_Witness ==
    /\ last.op = "render"
    /\ last.kind = "int"
    /\ last.val.ty = "u64"
    /\ last.pre.len = 1
    /\ Capacity(last.pre) = 20
    /\ last.trace.reserved
    /\ last.trace.free >= 20
    /\ b.len = 1 + last.trace.l

\* C10: every render and render_escaped call of a built-in type only
\* appends: the bytes held before the call remain a prefix of the content
\* and the length does not decrease, also on the integer path.
C10_AppendOnly ==
    (IsCall /\ last.kind \in BuiltIn) =>
        /\ IsPrefix(AsStr(last.pre), AsStr(b))
        /\ b.len >= last.pre.len

C10_Witness ==
    /\ last.kind = "int"
    /\ last.trace.reserved
    /\ last.pre.len > 1
    /\ Capacity(b) > Capacity(last.pre)
    /\ IsPrefix(AsStr(last.pre), AsStr(b))
    /\ b.len > last.pre.len

====
